---- MODULE Spec2Model ----
(***************************************************************************)
(* The Saweria donation relay: a webhook ingest handler, a donation queue, *)
(* a leaderboard of cumulative totals, a poll/confirm handler and a        *)
(* periodic cleanup sweep.  The repository ships two variants of the same  *)
(* server: an in-memory one (src/unnamed/part_000) and a durable, SQLite   *)
(* backed one (src/server.js).  The variable `variant` says which one is   *)
(* running; every handler is modelled once per variant.                    *)
(***************************************************************************)
EXTENDS Integers, Sequences, FiniteSets, TLC

VARIABLES
    variant,        \* "memory" (part_000) or "durable" (server.js)
    tieBreak,       \* server.js: the order in which the storage engine gives
                    \* rows that an ORDER BY leaves tied, "forward" (rowid
                    \* order) or "reverse"; fixed for a run
    donationQueue,  \* part_000: the array donationQueue; server.js: the rows
                    \* of table donations, in insertion (rowid) order
    topSpenders,    \* the leaderboard entries, in insertion order
    now,            \* the wall clock, Date.now(), in milliseconds
    last,           \* the response of the last request (or sweep report)
    nextSeq,        \* history: how many donations were ever stored
    ledger,         \* history: per username, the sum of the amounts of the
                    \* ingests answered with success since the leaderboard
                    \* was last wiped
    faults          \* history: how many statements the storage engine failed

vars == <<variant, tieBreak, donationQueue, topSpenders, now, last, nextSeq, ledger, faults>>

(***************************************************************************)
(* JavaScript values as they occur in a webhook payload.                   *)
(***************************************************************************)
Undefined == [kind |-> "undefined", str |-> "", num |-> 0]

NaN == [kind |-> "NaN", str |-> "", num |-> 0]

Str(s) == [kind |-> "string", str |-> s, num |-> 0]

Num(n) == [kind |-> "number", str |-> "", num |-> n]

\* ToBoolean: undefined, NaN, "" and 0 are falsy.
Truthy(v) ==
    CASE v.kind = "string" -> v.str # ""
      [] v.kind = "number" -> v.num # 0
      [] OTHER -> FALSE

\* The || operator: the left operand when it is truthy, else the right one.
Or(a, b) == IF Truthy(a) THEN a ELSE b

DigitChars == "0123456789"

IsDigit(c) == \E i \in 1..10 : SubSeq(DigitChars, i, i) = c

DigitValue(c) == CHOOSE n \in 0..9 : SubSeq(DigitChars, n + 1, n + 1) = c

CharAt(s, i) == SubSeq(s, i, i)

\* Index of the first character of s at or after i that is not white space.
RECURSIVE SkipWhiteSpace(_, _)
SkipWhiteSpace(s, i) ==
    IF i <= Len(s) /\ CharAt(s, i) = " " THEN SkipWhiteSpace(s, i + 1) ELSE i

\* Index just after the run of decimal digits of s that starts at i.
RECURSIVE DigitsEnd(_, _)
DigitsEnd(s, i) ==
    IF i <= Len(s) /\ IsDigit(CharAt(s, i)) THEN DigitsEnd(s, i + 1) ELSE i

\* The value of the decimal digits s[i..j-1], most significant first.
RECURSIVE DigitsValue(_, _, _)
DigitsValue(s, i, j) ==
    IF j <= i THEN 0
    ELSE 10 * DigitsValue(s, i, j - 1) + DigitValue(CharAt(s, j - 1))

\* parseInt on a string, radix 10: leading white space is skipped, one sign
\* is read, then the longest run of digits; no digit at all gives NaN.
ParseIntString(s) ==
    LET i == SkipWhiteSpace(s, 1)
        neg == i <= Len(s) /\ CharAt(s, i) = "-"
        signed == i <= Len(s) /\ CharAt(s, i) \in {"-", "+"}
        j == IF signed THEN i + 1 ELSE i
        k == DigitsEnd(s, j)
    IN  IF k = j THEN NaN
        ELSE Num((IF neg THEN -1 ELSE 1) * DigitsValue(s, j, k))

\* parseInt(v): v is first converted to a string.  undefined reads
\* "undefined" (no digit: NaN); an integer reads as its own digits.
parseInt(v) ==
    CASE v.kind = "string" -> ParseIntString(v.str)
      [] v.kind = "number" -> Num(v.num)
      [] OTHER -> NaN

(***************************************************************************)
(* Webhook payloads: req.body, an object with any of the alias fields set. *)
(***************************************************************************)
NoBody == [body |-> "undefined"]

EmptyPayload ==
    [donatur_name |-> Undefined, donator_name |-> Undefined,
     supporter_name |-> Undefined, supporter |-> Undefined,
     name |-> Undefined, username |-> Undefined,
     amount_raw |-> Undefined, amount |-> Undefined,
     nominal |-> Undefined, donation |-> Undefined,
     message |-> Undefined, pesan |-> Undefined,
     note |-> Undefined, comment |-> Undefined]

\* Mutant of ExtractUsername: another fallback name.
ExtractUsernameUnknown(data) ==
    Or(data.donatur_name,
    Or(data.donator_name,
    Or(data.supporter_name,
    Or(data.supporter,
    Or(data.name,
    Or(data.username,
       Str("Unknown")))))))

ExtractUsername(data) ==
    Or(data.donatur_name,
    Or(data.donator_name,
    Or(data.supporter_name,
    Or(data.supporter,
    Or(data.name,
    Or(data.username,
       Str("Anonymous")))))))

\* Mutant of ExtractAmount: amount is read before amount_raw.
ExtractAmountReordered(data) ==
    Or(parseInt(data.amount),
    Or(parseInt(data.amount_raw),
    Or(parseInt(data.nominal),
    Or(parseInt(data.donation),
       Num(0)))))

ExtractAmount(data) ==
    Or(parseInt(data.amount_raw),
    Or(parseInt(data.amount),
    Or(parseInt(data.nominal),
    Or(parseInt(data.donation),
       Num(0)))))

ExtractMessage(data) ==
    Or(data.message,
    Or(data.pesan,
    Or(data.note,
    Or(data.comment,
       Str("")))))

(***************************************************************************)
(* Program constants.                                                      *)
(***************************************************************************)
MAX_QUEUE_SIZE == 20

DONATION_LIFETIME == 120000

DELIVERED_LIFETIME == 30000

DB_DELIVERED_LIFETIME == 60000

DB_UNDELIVERED_LIFETIME == 300000

TOP_LIMIT == 10

\* Keys every plain object inherits from Object.prototype: topSpenders[k]
\* is truthy for them although topSpenders has no entry of its own under k.
ObjectPrototypeKeys ==
    {"constructor", "__proto__", "toString", "toLocaleString", "valueOf",
     "hasOwnProperty", "isPrototypeOf", "propertyIsEnumerable"}

(***************************************************************************)
(* Donations and the queue.                                                *)
(***************************************************************************)
\* Date.now() + '-' + a random suffix; rnd is the suffix Math.random gave.
generateDonationId(rnd) == [ms |-> now, rand |-> rnd]

NoId == [ms |-> -1, rand |-> -1]

\* req.query.confirm when the request carries no confirm parameter.
NoConfirm == [absent |-> TRUE]

\* The donation record the ingest handler builds.  timestamp (the ISO form
\* of received_at) and avatar_url (always null) are not carried; seq is the
\* history ordinal of the donation, not a field of the program.
NewDonation(data, rnd) ==
    LET username == ExtractUsername(data).str
    IN  [id |-> generateDonationId(rnd),
         username |-> username,
         display_name |-> username,
         amount |-> ExtractAmount(data).num,
         message |-> ExtractMessage(data).str,
         received_at |-> now,
         delivered |-> FALSE,
         seq |-> nextSeq]

Null == <<>>

UndeliveredIndexes(queue) == {i \in DOMAIN queue : ~queue[i].delivered}

\* Mutant of UndeliveredCount: every stored donation is counted.
UndeliveredCountTotal(queue) == Len(queue)

\* donationQueue.filter(d => !d.delivered).length
\* SELECT COUNT(*) FROM donations WHERE delivered = 0
UndeliveredCount(queue) == Cardinality(UndeliveredIndexes(queue))

\* Mutant of MemNextDonation: findLast in place of find.
MemNextDonationNewest(queue) ==
    IF UndeliveredIndexes(queue) = {} THEN Null
    ELSE LET i == CHOOSE k \in UndeliveredIndexes(queue) :
                      \A j \in UndeliveredIndexes(queue) : k >= j
         IN  <<queue[i]>>

\* donationQueue.find(d => !d.delivered) || null
MemNextDonation(queue) ==
    IF UndeliveredIndexes(queue) = {} THEN Null
    ELSE LET i == CHOOSE k \in UndeliveredIndexes(queue) :
                      \A j \in UndeliveredIndexes(queue) : k <= j
         IN  <<queue[i]>>

\* The row of S the storage engine gives first among rows the ORDER BY
\* leaves tied.  SQL leaves that order open; the engine settles it by the
\* order of its scan, which is the same for every run of a statement.
TieFirst(S) ==
    IF tieBreak = "forward" THEN CHOOSE k \in S : \A j \in S : k <= j
    ELSE CHOOSE k \in S : \A j \in S : k >= j

\* The rows getUndeliveredDonation may return: WHERE delivered = 0 ORDER BY
\* received_at ASC LIMIT 1, an undelivered row of least received_at.
DbNextDonations(queue) ==
    IF UndeliveredIndexes(queue) = {} THEN {Null}
    ELSE {<<queue[TieFirst({k \in UndeliveredIndexes(queue) :
              \A j \in UndeliveredIndexes(queue) :
                  queue[k].received_at <= queue[j].received_at})]>>}

\* Mutant of MemMarkDelivered: the flag is flipped, not set.
MemMarkDeliveredToggle(queue, confirmId) ==
    LET hits == {i \in DOMAIN queue : queue[i].id = confirmId}
    IN  IF hits = {} THEN queue
        ELSE LET first == CHOOSE k \in hits : \A j \in hits : k <= j
             IN  [queue EXCEPT ![first].delivered = ~@]

\* const donation = donationQueue.find(d => d.id === confirmId);
\* if (donation) donation.delivered = true
MemMarkDelivered(queue, confirmId) ==
    LET hits == {i \in DOMAIN queue : queue[i].id = confirmId}
    IN  IF hits = {} THEN queue
        ELSE LET first == CHOOSE k \in hits : \A j \in hits : k <= j
             IN  [queue EXCEPT ![first].delivered = TRUE]

\* Mutant of DbMarkDelivered: the WHERE clause is lost.
DbMarkDeliveredAll(queue, confirmId) ==
    [i \in DOMAIN queue |-> [queue[i] EXCEPT !.delivered = TRUE]]

\* UPDATE donations SET delivered = 1 WHERE id = ?
DbMarkDelivered(queue, confirmId) ==
    [i \in DOMAIN queue |->
        IF queue[i].id = confirmId
        THEN [queue[i] EXCEPT !.delivered = TRUE]
        ELSE queue[i]]

\* Mutant of MemKeeps: >= in place of > on the delivered threshold.
MemKeepsInclusive(d) ==
    LET age == now - d.received_at
    IN  IF age > DONATION_LIFETIME THEN FALSE
        ELSE IF d.delivered /\ age >= DELIVERED_LIFETIME THEN FALSE
        ELSE TRUE

\* The filter of cleanupOldDonations in the in-memory variant.
MemKeeps(d) ==
    LET age == now - d.received_at
    IN  IF age > DONATION_LIFETIME THEN FALSE
        ELSE IF d.delivered /\ age > DELIVERED_LIFETIME THEN FALSE
        ELSE TRUE

\* The WHERE clause of cleanOldDonations with the thresholds
\* cleanupOldDonations binds to it.
DbDeletes(d) ==
    LET deliveredThreshold == now - DB_DELIVERED_LIFETIME
        undeliveredThreshold == now - DB_UNDELIVERED_LIFETIME
    IN  \/ d.delivered /\ d.received_at < deliveredThreshold
        \/ d.received_at < undeliveredThreshold

(***************************************************************************)
(* The leaderboard.                                                        *)
(***************************************************************************)
HasEntry(board, username) == \E i \in DOMAIN board : board[i].username = username

EntryIndex(board, username) == CHOOSE i \in DOMAIN board : board[i].username = username

\* if (!topSpenders[username]) topSpenders[username] = {..., total_amount: 0};
\* topSpenders[username].total_amount += amount
\* Under an inherited key the lookup is truthy, no entry is created, and the
\* += lands on the inherited object, which the leaderboard never lists.
MemUpdateTopSpender(board, username, amount) ==
    IF username \in ObjectPrototypeKeys THEN board
    ELSE LET created ==
                 IF HasEntry(board, username) THEN board
                 ELSE Append(board, [username |-> username,
                                     display_name |-> username,
                                     total_amount |-> 0])
             i == EntryIndex(created, username)
         IN  [created EXCEPT ![i].total_amount = @ + amount]

\* INSERT INTO top_spenders ... ON CONFLICT(username) DO UPDATE SET
\* total_amount = total_amount + excluded.total_amount, display_name = ...
DbUpdateTopSpender(board, username, amount) ==
    IF HasEntry(board, username)
    THEN LET i == EntryIndex(board, username)
         IN  [board EXCEPT ![i].total_amount = @ + amount,
                           ![i].display_name = username]
    ELSE Append(board, [username |-> username,
                        display_name |-> username,
                        total_amount |-> amount])

\* s with entry e put after every entry of s whose total is >= e's.
RECURSIVE InsertDescending(_, _)
InsertDescending(s, e) ==
    IF s = <<>> THEN <<e>>
    ELSE IF Head(s).total_amount >= e.total_amount
         THEN <<Head(s)>> \o InsertDescending(Tail(s), e)
         ELSE <<e>> \o s

\* .sort((a, b) => b.total_amount - a.total_amount), a stable sort.
RECURSIVE SortDescending(_)
SortDescending(s) ==
    IF s = <<>> THEN <<>>
    ELSE InsertDescending(SortDescending(SubSeq(s, 1, Len(s) - 1)), s[Len(s)])

FirstN(s, n) == SubSeq(s, 1, IF Len(s) < n THEN Len(s) ELSE n)

\* Mutant of MemTopSpenders: the sort is left out.
MemTopSpendersUnsorted(board) == FirstN(board, TOP_LIMIT)

\* Object.values(topSpenders).sort(...).slice(0, 10)
MemTopSpenders(board) == FirstN(SortDescending(board), TOP_LIMIT)

\* The orders in which ORDER BY total_amount DESC may give the rows S of
\* board: a row of greatest total first, then the others likewise.
RECURSIVE DescendingOrders(_, _)
DescendingOrders(board, S) ==
    IF S = {} THEN {<<>>}
    ELSE LET m == TieFirst({k \in S : \A j \in S :
                         board[k].total_amount >= board[j].total_amount})
         IN  {<<board[m]>> \o rest : rest \in DescendingOrders(board, S \ {m})}

\* The lists getTopSpenders may return: ORDER BY total_amount DESC LIMIT 10.
DbTopSpenders(board) ==
    {FirstN(s, TOP_LIMIT) : s \in DescendingOrders(board, DOMAIN board)}

\* The history of successful ingests: username's sum grows by amount.
LedgerAdd(l, username, amount) ==
    [u \in DOMAIN l \cup {username} |->
        (IF u \in DOMAIN l THEN l[u] ELSE 0) + (IF u = username THEN amount ELSE 0)]

(***************************************************************************)
(* Responses.                                                              *)
(***************************************************************************)
\* The last request (its route and its input) with the status and the body
\* of the response to it.
Reply(op, request, status) ==
    [op |-> op, request |-> request, status |-> status, donation_id |-> NoId,
     donation |-> Null, top_spenders |-> <<>>, queue_size |-> -1]

NoRequest == [none |-> TRUE]

\* res.json({success: true, donation_id, queue_size})
IngestReply(data, id, count) ==
    [Reply("saweria", data, 200) EXCEPT !.donation_id = id, !.queue_size = count]

\* res.json({donation, top_spenders, queue_size, timestamp})
PollReply(confirmId, donation, top, count) ==
    [Reply("roblox-check", confirmId, 200) EXCEPT
        !.donation = donation, !.top_spenders = top, !.queue_size = count]

(***************************************************************************)
(* POST /saweria                                                           *)
(***************************************************************************)
\* Mutant of MemPush: pop() in place of shift().
MemPushDropNewest(queue, donation) ==
    LET pushed == Append(queue, donation)
    IN  IF Len(pushed) > MAX_QUEUE_SIZE THEN SubSeq(pushed, 1, Len(pushed) - 1)
        ELSE pushed

\* donationQueue.push(donation);
\* if (donationQueue.length > MAX_QUEUE_SIZE) donationQueue.shift()
MemPush(queue, donation) ==
    LET pushed == Append(queue, donation)
    IN  IF Len(pushed) > MAX_QUEUE_SIZE THEN Tail(pushed) ELSE pushed

\* In-memory variant.  Reading a field of a missing body throws before any
\* store is touched; nothing after the field reads can throw.
MemIngest(data, rnd) ==
    /\ variant = "memory"
    /\ IF data = NoBody
       THEN /\ last' = Reply("saweria", data, 400)
            /\ UNCHANGED <<donationQueue, topSpenders, nextSeq, ledger>>
       ELSE LET donation == NewDonation(data, rnd)
                queue == MemPush(donationQueue, donation)
            IN  /\ donationQueue' = queue
                /\ topSpenders' = MemUpdateTopSpender(topSpenders, donation.username,
                                                      donation.amount)
                /\ last' = IngestReply(data, donation.id, UndeliveredCount(queue))
                /\ nextSeq' = nextSeq + 1
                /\ ledger' = LedgerAdd(ledger, donation.username, donation.amount)
    /\ UNCHANGED <<variant, tieBreak, now, faults>>

\* The statements of the durable ingest handler, in order; each can throw.
DbIngestFaults == {"none", "insertDonation", "updateTopSpender", "queueCount"}

\* Durable variant.  fault names the statement the storage engine fails, if
\* any; insertDonation also fails when the id is already a primary key.
\* Every exception of the handler is answered 400; no statement is undone.
DbIngest(data, rnd, fault) ==
    /\ variant = "durable"
    /\ data = NoBody => fault = "none"
    /\ IF data = NoBody
       THEN /\ last' = Reply("saweria", data, 400)
            /\ UNCHANGED <<donationQueue, topSpenders, nextSeq, ledger>>
       ELSE LET donation == NewDonation(data, rnd)
                duplicate == \E i \in DOMAIN donationQueue :
                                 donationQueue[i].id = donation.id
                queue == Append(donationQueue, donation)
                board == DbUpdateTopSpender(topSpenders, donation.username,
                                            donation.amount)
            IN  IF fault = "insertDonation" \/ duplicate
                THEN /\ last' = Reply("saweria", data, 400)
                     /\ UNCHANGED <<donationQueue, topSpenders, nextSeq, ledger>>
                ELSE IF fault = "updateTopSpender"
                THEN /\ donationQueue' = queue
                     /\ nextSeq' = nextSeq + 1
                     /\ last' = Reply("saweria", data, 400)
                     /\ UNCHANGED <<topSpenders, ledger>>
                ELSE IF fault = "queueCount"
                THEN /\ donationQueue' = queue
                     /\ nextSeq' = nextSeq + 1
                     /\ topSpenders' = board
                     /\ last' = Reply("saweria", data, 400)
                     /\ UNCHANGED ledger
                ELSE /\ donationQueue' = queue
                     /\ nextSeq' = nextSeq + 1
                     /\ topSpenders' = board
                     /\ last' = IngestReply(data, donation.id, UndeliveredCount(queue))
                     /\ ledger' = LedgerAdd(ledger, donation.username, donation.amount)
    /\ faults' = IF data # NoBody /\ fault # "none" THEN faults + 1 ELSE faults
    /\ UNCHANGED <<variant, tieBreak, now>>

(***************************************************************************)
(* GET /roblox-check?confirm=<id>                                          *)
(***************************************************************************)
\* Mutant of MemPoll: the donation served is marked delivered at once.
MemPollAutoConfirm(confirmId) ==
    /\ variant = "memory"
    /\ LET queue == IF confirmId # NoConfirm
                    THEN MemMarkDelivered(donationQueue, confirmId)
                    ELSE donationQueue
           served == MemNextDonation(queue)
       IN  /\ donationQueue' = [i \in DOMAIN queue |->
                                   IF served # Null /\ queue[i] = served[1]
                                   THEN [queue[i] EXCEPT !.delivered = TRUE]
                                   ELSE queue[i]]
           /\ last' = PollReply(confirmId, served, MemTopSpenders(topSpenders),
                                UndeliveredCount(queue))
    /\ UNCHANGED <<variant, tieBreak, topSpenders, now, nextSeq, ledger, faults>>

MemPoll(confirmId) ==
    /\ variant = "memory"
    /\ LET queue == IF confirmId # NoConfirm
                    THEN MemMarkDelivered(donationQueue, confirmId)
                    ELSE donationQueue
       IN  /\ donationQueue' = queue
           /\ last' = PollReply(confirmId, MemNextDonation(queue), MemTopSpenders(topSpenders),
                                UndeliveredCount(queue))
    /\ UNCHANGED <<variant, tieBreak, topSpenders, now, nextSeq, ledger, faults>>

\* The statements of the durable poll handler; the three reads after the
\* optional update are one fault point.
DbPollFaults == {"none", "markDelivered", "select"}

DbPoll(confirmId, fault) ==
    /\ variant = "durable"
    /\ fault = "markDelivered" => confirmId # NoConfirm
    /\ IF fault = "markDelivered"
       THEN /\ last' = Reply("roblox-check", confirmId, 500)
            /\ UNCHANGED donationQueue
       ELSE LET queue == IF confirmId # NoConfirm
                         THEN DbMarkDelivered(donationQueue, confirmId)
                         ELSE donationQueue
            IN  /\ donationQueue' = queue
                     /\ IF fault = "select"
                   THEN last' = Reply("roblox-check", confirmId, 500)
                   ELSE \E donation \in DbNextDonations(queue),
                           top \in DbTopSpenders(topSpenders) :
                            last' = PollReply(confirmId, donation, top, UndeliveredCount(queue))
    /\ faults' = IF fault # "none" THEN faults + 1 ELSE faults
    /\ UNCHANGED <<variant, tieBreak, topSpenders, now, nextSeq, ledger>>

(***************************************************************************)
(* The cleanup sweep (setInterval, every 30 s).                            *)
(***************************************************************************)
\* Mutant of MemCleanup: the sweep also drops the leaderboard entries of
\* the donors none of whose donations is kept.
MemCleanupPrune ==
    /\ variant = "memory"
    /\ donationQueue' = SelectSeq(donationQueue, MemKeeps)
    /\ topSpenders' = SelectSeq(topSpenders,
           LAMBDA e : \E i \in DOMAIN donationQueue' :
                          donationQueue'[i].username = e.username)
    /\ UNCHANGED <<variant, tieBreak, now, last, nextSeq, ledger, faults>>

MemCleanup ==
    /\ variant = "memory"
    /\ donationQueue' = SelectSeq(donationQueue, MemKeeps)
    /\ UNCHANGED <<variant, tieBreak, topSpenders, now, last, nextSeq, ledger, faults>>

DbCleanupFaults == {"none", "cleanOldDonations"}

\* A DELETE the storage engine fails removes nothing; the error is logged.
DbCleanup(fault) ==
    /\ variant = "durable"
    /\ donationQueue' = IF fault # "none" THEN donationQueue
                        ELSE SelectSeq(donationQueue, LAMBDA d : ~DbDeletes(d))
    /\ faults' = IF fault # "none" THEN faults + 1 ELSE faults
    /\ UNCHANGED <<variant, tieBreak, topSpenders, now, last, nextSeq, ledger>>

(***************************************************************************)
(* POST /clear                                                             *)
(***************************************************************************)
\* Mutant of MemClear: the leaderboard is kept.
MemClearQueueOnly ==
    /\ variant = "memory"
    /\ donationQueue' = <<>>
    /\ last' = Reply("clear", NoRequest, 200)
    /\ UNCHANGED <<variant, tieBreak, topSpenders, ledger, now, nextSeq, faults>>

MemClear ==
    /\ variant = "memory"
    /\ donationQueue' = <<>>
    /\ topSpenders' = <<>>
    /\ ledger' = <<>>
    /\ last' = Reply("clear", NoRequest, 200)
    /\ UNCHANGED <<variant, tieBreak, now, nextSeq, faults>>

DbClearFaults == {"none", "donations", "top_spenders"}

\* Two DELETE statements, not in one transaction.
DbClear(fault) ==
    /\ variant = "durable"
    /\ donationQueue' = IF fault = "donations" THEN donationQueue ELSE <<>>
    /\ topSpenders' = IF fault = "none" THEN <<>> ELSE topSpenders
    /\ ledger' = IF fault = "none" THEN <<>> ELSE ledger
    /\ last' = Reply("clear", NoRequest, IF fault = "none" THEN 200 ELSE 500)
    /\ faults' = IF fault # "none" THEN faults + 1 ELSE faults
    /\ UNCHANGED <<variant, tieBreak, now, nextSeq>>

(***************************************************************************)
(* Time passes: the clock moves to a later instant t.                      *)
(***************************************************************************)
Tick(t) ==
    /\ t > now
    /\ now' = t
    /\ UNCHANGED <<variant, tieBreak, donationQueue, topSpenders, last, nextSeq, ledger, faults>>

(***************************************************************************)
(* The relay under a small set of requests: both variants, every handler,  *)
(* the sweep and the clock interleaved in any order.                       *)
(***************************************************************************)
MaxIngests == 2

\* How many storage failures a run injects.
MaxFaults == 1

\* The faults a run may still inject, out of the fault points of a handler.
Allowed(faultPoints) ==
    IF faults < MaxFaults THEN faultPoints ELSE {"none"}

BudiPayload ==
    [EmptyPayload EXCEPT !.donatur_name = Str("Budi"),
                         !.amount_raw = Str("5000"),
                         !.message = Str("hi")]

NegativePayload ==
    [EmptyPayload EXCEPT !.name = Str("Budi"), !.amount = Str("-5")]

Payloads == {BudiPayload, NegativePayload, NoBody}

\* The suffixes Math.random may give an ingest.  A suffix is opaque: all
\* that matters is which stored id of the same millisecond it equals, if
\* any.  Suffixes are therefore numbered in order of first use: the choice
\* is any suffix a stored id of this millisecond has, or the next new one.
UsedSuffixes ==
    {donationQueue[i].id.rand :
        i \in {k \in DOMAIN donationQueue : donationQueue[k].id.ms = now}}

FreshSuffix == CHOOSE n \in 0..Cardinality(UsedSuffixes) : n \notin UsedSuffixes

Suffixes == UsedSuffixes \cup {FreshSuffix}

Instants == {0, 60001}

\* The confirm parameters a client may send: none, the id of a stored
\* donation, or the first id of an instant (stored, removed since, or never
\* stored at all).
ConfirmInputs ==
    {NoConfirm}
        \cup {donationQueue[i].id : i \in DOMAIN donationQueue}
        \cup {[ms |-> t, rand |-> 0] : t \in {i \in Instants : i <= now}}

Init ==
    /\ variant \in {"memory", "durable"}
    /\ tieBreak \in (IF variant = "memory" THEN {"forward"} ELSE {"forward", "reverse"})
    /\ donationQueue = <<>>
    /\ topSpenders = <<>>
    /\ now = 0
    /\ last = Reply("none", NoRequest, 0)
    /\ nextSeq = 0
    /\ ledger = <<>>
    /\ faults = 0

Next ==
    \/ \E data \in Payloads, rnd \in Suffixes :
           nextSeq < MaxIngests /\ MemIngest(data, rnd)
    \/ \E data \in Payloads, rnd \in Suffixes, fault \in Allowed(DbIngestFaults) :
           nextSeq < MaxIngests /\ DbIngest(data, rnd, fault)
    \/ \E confirmId \in ConfirmInputs : MemPoll(confirmId)
    \/ \E confirmId \in ConfirmInputs, fault \in Allowed(DbPollFaults) : DbPoll(confirmId, fault)
    \/ MemCleanup
    \/ \E fault \in Allowed(DbCleanupFaults) : DbCleanup(fault)
    \/ MemClear
    \/ \E fault \in Allowed(DbClearFaults) : DbClear(fault)
    \/ \E t \in Instants : Tick(t)

Spec == Init /\ [][Next]_vars

(***************************************************************************)
(* Steps of the handlers, over the requests of Spec.                       *)
(***************************************************************************)
IngestStep ==
    \/ \E data \in Payloads, rnd \in Suffixes : MemIngest(data, rnd)
    \/ \E data \in Payloads, rnd \in Suffixes, fault \in DbIngestFaults :
           DbIngest(data, rnd, fault)

PollStep ==
    \/ \E confirmId \in ConfirmInputs : MemPoll(confirmId)
    \/ \E confirmId \in ConfirmInputs, fault \in DbPollFaults : DbPoll(confirmId, fault)

\* A poll the storage engine does not fail.
PollOf(confirmId) == MemPoll(confirmId) \/ DbPoll(confirmId, "none")

\* donation is what a poll of queue has to return: null when nothing is
\* undelivered, else an undelivered donation of queue no other undelivered
\* donation is older than.
OldestUndelivered(queue, donation) ==
    IF UndeliveredIndexes(queue) = {} THEN donation = Null
    ELSE /\ donation # Null
         /\ \E i \in UndeliveredIndexes(queue) : queue[i] = donation[1]
         /\ \A j \in UndeliveredIndexes(queue) :
                donation[1].received_at <= queue[j].received_at

(***************************************************************************)
(* C1.  Every poll, with or without confirm, answers with the undelivered  *)
(* donation of least received_at among those undelivered once the confirm  *)
(* is applied, and with null exactly when no donation is undelivered.      *)
(***************************************************************************)
C1_PollReturnsOldestUndelivered ==
    [][(last'.op = "roblox-check" /\ last'.status = 200 /\ PollStep)
          => OldestUndelivered(donationQueue', last'.donation)]_vars

\* A poll has answered with the older of two undelivered donations.
C1_Witness ==
    /\ last.op = "roblox-check"
    /\ last.status = 200
    /\ last.donation # Null
    /\ \E i, j \in UndeliveredIndexes(donationQueue) :
           /\ donationQueue[i] = last.donation[1]
           /\ donationQueue[i].received_at < donationQueue[j].received_at

(***************************************************************************)
(* C2.  As long as the leaderboard is not cleared, the total_amount of     *)
(* every username is the sum of the amounts of the successful ingests for  *)
(* it (a username without an entry has total 0, one without a successful   *)
(* ingest has sum 0).                                                      *)
(***************************************************************************)
TotalOf(username) ==
    IF HasEntry(topSpenders, username)
    THEN topSpenders[EntryIndex(topSpenders, username)].total_amount
    ELSE 0

IngestedSum(username) == IF username \in DOMAIN ledger THEN ledger[username] ELSE 0

C2_TotalIsSumOfIngests ==
    \A u \in DOMAIN ledger \cup {topSpenders[i].username : i \in DOMAIN topSpenders} :
        TotalOf(u) = IngestedSum(u)

(***************************************************************************)
(* C3.  Ingest is all or nothing: an ingest answered with an error has     *)
(* changed neither the queue nor the leaderboard, and an ingest answered   *)
(* with success has stored its donation.                                   *)
(***************************************************************************)
C3_IngestAllOrNothing ==
    [][(last'.op = "saweria" /\ IngestStep) =>
          IF last'.status = 200
          THEN \E i \in DOMAIN donationQueue' : donationQueue'[i].seq = nextSeq
          ELSE donationQueue' = donationQueue /\ topSpenders' = topSpenders]_vars

(***************************************************************************)
(* C4.  A delivered flag, once set, is never reset while the donation is   *)
(* stored, and every poll (the confirming one included) answers with the   *)
(* oldest donation that is still undelivered, or null: never with one      *)
(* whose flag is set.                                                      *)
(***************************************************************************)
C4_DeliveredIsFinal ==
    [][/\ \A i \in DOMAIN donationQueue, j \in DOMAIN donationQueue' :
              (donationQueue[i].seq = donationQueue'[j].seq /\ donationQueue[i].delivered)
                  => donationQueue'[j].delivered
       /\ (last'.op = "roblox-check" /\ last'.status = 200 /\ PollStep) =>
              /\ OldestUndelivered(donationQueue', last'.donation)
              /\ \A i \in DOMAIN donationQueue :
                     (donationQueue[i].delivered /\ last'.donation # Null)
                         => donationQueue[i].seq # last'.donation[1].seq]_vars

\* A confirming poll has marked one donation and answered with the next.
C4_Witness ==
    /\ last.op = "roblox-check"
    /\ last.status = 200
    /\ last.request # NoConfirm
    /\ last.donation # Null
    /\ \E i, j \in DOMAIN donationQueue :
           /\ donationQueue[i].delivered
           /\ donationQueue[i].id = last.request
           /\ ~donationQueue[j].delivered
           /\ donationQueue[j] = last.donation[1]

(***************************************************************************)
(* C5.  A confirm whose id no stored donation has, or only donations that  *)
(* are delivered already, is answered without an error (unless the storage *)
(* engine fails) and changes nothing: the stored donations, their flags    *)
(* and the undelivered count stay as they were.                            *)
(***************************************************************************)
C5_RedundantConfirmIsNoOp ==
    [][LET confirmId == last'.request
       IN  (/\ last'.op = "roblox-check"
            /\ confirmId # NoConfirm
            /\ \A i \in DOMAIN donationQueue :
                   donationQueue[i].id = confirmId => donationQueue[i].delivered)
           =>
           /\ PollOf(confirmId) =>
                  /\ last'.status = 200
                  /\ last'.queue_size = UndeliveredCount(donationQueue)
           /\ (\E fault \in DbPollFaults : PollOf(confirmId) \/ DbPoll(confirmId, fault))
                  => (donationQueue' = donationQueue /\ topSpenders' = topSpenders)]_vars

\* A confirm of an id that is delivered already has been answered, and
\* likewise a confirm of an id no stored donation has.
C5_Witness ==
    /\ last.op = "roblox-check"
    /\ last.status = 200
    /\ last.request # NoConfirm
    /\ donationQueue # <<>>
    /\ \A i \in DOMAIN donationQueue : donationQueue[i].id # last.request
    /\ UndeliveredIndexes(donationQueue) # {}

(***************************************************************************)
(* C7.  Every stored donation has an amount >= 0, whatever the payload.    *)
(***************************************************************************)
C7_AmountsNonNegative ==
    \A i \in DOMAIN donationQueue : donationQueue[i].amount >= 0

(***************************************************************************)
(* C8.  No step lowers the total_amount of a leaderboard entry that is     *)
(* kept (a clear removes the entries).                                     *)
(***************************************************************************)
C8_TotalsNeverDecrease ==
    [][\A i \in DOMAIN topSpenders, j \in DOMAIN topSpenders' :
          topSpenders[i].username = topSpenders'[j].username
              => topSpenders'[j].total_amount >= topSpenders[i].total_amount]_vars

(***************************************************************************)
(* The in-memory relay at capacity: one donor, a client that confirms what *)
(* it is served, the sweep and the clock.                                  *)
(***************************************************************************)
MaxCapIngests == 22

CapInstants == {60001}

InitCap == Init /\ variant = "memory"

CapIngestStep == \E rnd \in {FreshSuffix} : MemIngest(BudiPayload, rnd)

NextCap ==
    \/ nextSeq < MaxCapIngests /\ CapIngestStep
    \/ MemPoll(NoConfirm)
    \/ last.donation # Null /\ MemPoll(last.donation[1].id)
    \/ MemCleanup
    \/ \E t \in CapInstants : Tick(t)

SpecCap == InitCap /\ [][NextCap]_vars

(***************************************************************************)
(* C6.  The in-memory queue never holds more than 20 donations.  An ingest *)
(* into a queue of 20 removes exactly one donation, the earliest ingested  *)
(* one, delivered or not, and keeps the new one.                           *)
(***************************************************************************)
C6_QueueHoldsAtMostTwenty ==
    [][/\ Len(donationQueue') <= 20
       /\ (CapIngestStep /\ Len(donationQueue) = 20) =>
              /\ Len(donationQueue') = 20
              /\ \E j \in DOMAIN donationQueue' : donationQueue'[j].seq = nextSeq
              /\ \A i \in DOMAIN donationQueue :
                     (\E j \in DOMAIN donationQueue' : donationQueue'[j] = donationQueue[i])
                         <=> (\E k \in DOMAIN donationQueue :
                                 donationQueue[k].seq < donationQueue[i].seq)]_vars

\* An ingest into a full queue has been answered: the earliest donation is
\* gone, the new one is stored, and the queue is full again.
C6_Witness ==
    /\ last.op = "saweria"
    /\ last.status = 200
    /\ nextSeq > 20
    /\ Len(donationQueue) = 20
    /\ donationQueue[1].seq = nextSeq - 20
    /\ donationQueue[20].seq = nextSeq - 1
    /\ donationQueue[20].id = last.donation_id

(***************************************************************************)
(* Alias resolution: one ingest into the fresh relay, over payloads that   *)
(* set any of the alias fields of one attribute to any of a few values.    *)
(***************************************************************************)
UsernameAliases ==
    <<"donatur_name", "donator_name", "supporter_name", "supporter", "name", "username">>

AmountAliases == <<"amount_raw", "amount", "nominal", "donation">>

MessageAliases == <<"message", "pesan", "note", "comment">>

NameValues == {Undefined, Str(""), Str("Budi"), Str("Ani")}

AmountValues ==
    {Undefined, Str(""), Str("0"), Num(0), Str("abc"), Str("5000"), Num(7), Str("-5")}

MessageValues == {Undefined, Str(""), Str("hi"), Str("yo")}

\* The payloads that set the fields named in aliases to values, nothing else.
PayloadsOver(aliases, values) ==
    {[f \in DOMAIN EmptyPayload |->
         IF \E k \in DOMAIN aliases : aliases[k] = f
         THEN v[CHOOSE k \in DOMAIN aliases : aliases[k] = f]
         ELSE Undefined] : v \in [DOMAIN aliases -> values]}

\* A donor named after a key every object inherits.
ConstructorPayload ==
    [EmptyPayload EXCEPT !.username = Str("constructor"), !.nominal = Num(100)]

AliasPayloads ==
    PayloadsOver(UsernameAliases, NameValues)
        \cup PayloadsOver(AmountAliases, AmountValues)
        \cup PayloadsOver(MessageAliases, MessageValues)
        \cup {BudiPayload, ConstructorPayload}

NextAlias ==
    \/ \E data \in AliasPayloads : nextSeq = 0 /\ MemIngest(data, FreshSuffix)
    \/ \E data \in AliasPayloads : nextSeq = 0 /\ DbIngest(data, FreshSuffix, "none")

SpecAlias == Init /\ [][NextAlias]_vars

\* The first alias of payload p, in listed order, whose value satisfies
\* Pick; 0 when none does.
FirstAlias(p, aliases, Pick(_)) ==
    IF \E k \in DOMAIN aliases : Pick(p[aliases[k]])
    THEN CHOOSE k \in DOMAIN aliases :
             Pick(p[aliases[k]]) /\ \A j \in 1..(k - 1) : ~Pick(p[aliases[j]])
    ELSE 0

Present(v) == v # Undefined

\* The integer an amount value stands for: non-numeric reads 0.
AmountOf(v) == IF parseInt(v) = NaN THEN 0 ELSE parseInt(v).num

UsableAmount(v) == Truthy(parseInt(v))

\* The donation the last ingest stored.
Stored == donationQueue[Len(donationQueue)]

IngestAnswered == last.op = "saweria" /\ last.status = 200 /\ donationQueue # <<>>

(***************************************************************************)
(* C9, as claimed.  The stored username, amount and message come from the  *)
(* first listed alias that is present in the payload, whatever its value   *)
(* (an empty string, "0", 0 and non-numeric text included); the fallback   *)
(* is used only when every alias is absent.                                *)
(***************************************************************************)
C9_FirstPresentAliasWins ==
    IngestAnswered =>
        LET p == last.request
            u == FirstAlias(p, UsernameAliases, Present)
            a == FirstAlias(p, AmountAliases, Present)
            m == FirstAlias(p, MessageAliases, Present)
        IN  /\ Stored.username = IF u = 0 THEN "Anonymous" ELSE p[UsernameAliases[u]].str
            /\ Stored.amount = IF a = 0 THEN 0 ELSE AmountOf(p[AmountAliases[a]])
            /\ Stored.message = IF m = 0 THEN "" ELSE p[MessageAliases[m]].str

(***************************************************************************)
(* C9, amended.  The stored username, amount and message come from the     *)
(* first listed alias whose value is usable: truthy for username and       *)
(* message, parsed by parseInt to a non-zero integer for amount.  An alias *)
(* that is absent, empty, "0", 0 or non-numeric is passed over, and the    *)
(* fallback is used when no alias is usable.                               *)
(***************************************************************************)
C9_FirstUsableAliasWins ==
    IngestAnswered =>
        LET p == last.request
            u == FirstAlias(p, UsernameAliases, Truthy)
            a == FirstAlias(p, AmountAliases, UsableAmount)
            m == FirstAlias(p, MessageAliases, Truthy)
        IN  /\ Stored.username = IF u = 0 THEN "Anonymous" ELSE p[UsernameAliases[u]].str
            /\ Stored.amount = IF a = 0 THEN 0 ELSE AmountOf(p[AmountAliases[a]])
            /\ Stored.message = IF m = 0 THEN "" ELSE p[MessageAliases[m]].str

\* An ingest has stored the amount of the third alias: the first is present
\* but reads 0, the second is non-numeric, the fourth is usable too.
C9_Witness ==
    /\ IngestAnswered
    /\ last.request.amount_raw = Str("0")
    /\ last.request.amount = Str("abc")
    /\ last.request.nominal = Num(7)
    /\ last.request.donation = Str("5000")
    /\ Stored.amount = 7

(***************************************************************************)
(* The sweep at its thresholds: one donor, confirms, the sweep, and a      *)
(* clock that visits the instants just past each threshold.                *)
(***************************************************************************)
MaxSweepIngests == 2

SweepInstants == {0, 1, 30001, 60001, 120001, 300001}

StoredIds == {donationQueue[i].id : i \in DOMAIN donationQueue}

NextSweep ==
    \/ nextSeq < MaxSweepIngests /\ MemIngest(BudiPayload, FreshSuffix)
    \/ nextSeq < MaxSweepIngests /\ DbIngest(BudiPayload, FreshSuffix, "none")
    \/ \E confirmId \in StoredIds : MemPoll(confirmId)
    \/ \E confirmId \in StoredIds : DbPoll(confirmId, "none")
    \/ MemCleanup
    \/ \E fault \in Allowed(DbCleanupFaults) : DbCleanup(fault)
    \/ \E t \in SweepInstants : Tick(t)

SpecSweep == Init /\ [][NextSweep]_vars

\* d is due for removal: delivered and older than short, or older than long.
Expired(d, short, long) ==
    \/ d.delivered /\ now - d.received_at > short
    \/ now - d.received_at > long

(***************************************************************************)
(* C10.  A sweep removes exactly the donations that are delivered and      *)
(* older than the short threshold, or older than the long threshold, and   *)
(* keeps every other donation (in-memory: 30 s and 120 s; durable: 60 s    *)
(* and 300 s).                                                             *)
(***************************************************************************)
C10_SweepRemovesExactlyExpired ==
    [][/\ MemCleanup =>
              donationQueue' = SelectSeq(donationQueue,
                                         LAMBDA d : ~Expired(d, 30000, 120000))
       /\ DbCleanup("none") =>
              donationQueue' = SelectSeq(donationQueue,
                                         LAMBDA d : ~Expired(d, 60000, 300000))]_vars

\* A sweep has removed a delivered donation and kept an undelivered one
\* that is older than the short threshold.
C10_Witness ==
    /\ nextSeq = 2
    /\ Len(donationQueue) = 1
    /\ ~donationQueue[1].delivered
    /\ now - donationQueue[1].received_at > 60000
    /\ last.op = "roblox-check"
    /\ last.request \notin StoredIds

(***************************************************************************)
(* The sweep and the capacity eviction next to the leaderboard: a first    *)
(* donor whose only donation is the earliest one, a second donor for every *)
(* later donation, a client that confirms what it is served, the sweep of  *)
(* either variant and the clock.                                           *)
(***************************************************************************)
MaxFrameIngests == 21

\* The durable queue has no capacity: a few rows show its sweep.
MaxDurableFrameIngests == 3

FrameInstants == {60001}

AniPayload ==
    [EmptyPayload EXCEPT !.supporter = Str("Ani"), !.nominal = Num(7)]

\* The payload of the next ingest: Ani's first, Budi's from then on.
FramePayload == IF nextSeq = 0 THEN AniPayload ELSE BudiPayload

FrameIngestStep ==
    \/ MemIngest(FramePayload, FreshSuffix)
    \/ DbIngest(FramePayload, FreshSuffix, "none")

CleanupStep ==
    \/ MemCleanup
    \/ \E fault \in DbCleanupFaults : DbCleanup(fault)

NextFrame ==
    \/ nextSeq < MaxFrameIngests /\ MemIngest(FramePayload, FreshSuffix)
    \/ nextSeq < MaxDurableFrameIngests /\ DbIngest(FramePayload, FreshSuffix, "none")
    \/ last.donation # Null /\ MemPoll(last.donation[1].id)
    \/ last.donation # Null /\ DbPoll(last.donation[1].id, "none")
    \/ MemPoll(NoConfirm)
    \/ DbPoll(NoConfirm, "none")
    \/ MemCleanup
    \/ \E fault \in Allowed(DbCleanupFaults) : DbCleanup(fault)
    \/ \E t \in FrameInstants : Tick(t)

SpecFrame == Init /\ [][NextFrame]_vars

\* The donations of queue that after holds too (by ordinal), in the order
\* and with the fields they have in queue.
Retained(queue, after) ==
    SelectSeq(queue, LAMBDA d : \E i \in DOMAIN after : after[i].seq = d.seq)

(***************************************************************************)
(* C11.  A sweep only removes donations: what it keeps is a subsequence of *)
(* the queue with every field (id, amount, delivered flag) as it was, and  *)
(* the leaderboard is untouched.  An ingest that evicts the earliest       *)
(* donation of the full in-memory queue deletes no leaderboard entry and   *)
(* alters none but the ingesting donor's, which grows by the amount.       *)
(***************************************************************************)
C11_SweepOnlyRemoves ==
    [][/\ CleanupStep =>
              /\ donationQueue' = Retained(donationQueue, donationQueue')
              /\ topSpenders' = topSpenders
       /\ (variant = "memory" /\ Len(donationQueue) = 20 /\ FrameIngestStep) =>
              /\ Len(topSpenders') = Len(topSpenders)
              /\ \A i \in DOMAIN topSpenders :
                     topSpenders'[i] =
                         IF topSpenders[i].username = donationQueue'[20].username
                         THEN [topSpenders[i] EXCEPT
                                  !.total_amount = @ + donationQueue'[20].amount]
                         ELSE topSpenders[i]]_vars

\* Ani's only donation was evicted by the 21st ingest, a sweep has since
\* removed a delivered donation and kept the undelivered ones, and Ani's
\* leaderboard entry is still there with its total.
C11_Witness ==
    /\ variant = "memory"
    /\ nextSeq >= 21
    /\ donationQueue # <<>>
    /\ Len(donationQueue) < 20
    /\ now - donationQueue[1].received_at > 30000
    /\ \A i \in DOMAIN donationQueue :
           donationQueue[i].username = "Budi" /\ ~donationQueue[i].delivered
    /\ HasEntry(topSpenders, "Ani")
    /\ TotalOf("Ani") = 7

(***************************************************************************)
(* C12.  Errors follow the taxonomy: a request during which the storage    *)
(* engine fails a statement is answered 500, and an ingest is answered 400 *)
(* only when its payload is malformed (here: the body is missing).         *)
(***************************************************************************)
C12_ErrorTaxonomy ==
    [][/\ (faults' > faults /\ ~CleanupStep) => last'.status = 500
       /\ (IngestStep /\ last'.status = 400) => last'.request = NoBody]_vars

(***************************************************************************)
(* C13.  No two donations stored at the same time have the same id, and a  *)
(* confirming poll sets the delivered flag of at most one donation.        *)
(***************************************************************************)
C13_IdsUnique ==
    [][/\ \A i, j \in DOMAIN donationQueue' :
              donationQueue'[i].id = donationQueue'[j].id => i = j
       /\ PollStep =>
              Cardinality({i \in DOMAIN donationQueue :
                  ~donationQueue[i].delivered /\ donationQueue'[i].delivered}) <= 1]_vars

\* The polls of SpecFrame: without confirm, or confirming what was served.
FramePollStep ==
    \/ MemPoll(NoConfirm)
    \/ DbPoll(NoConfirm, "none")
    \/ last.donation # Null /\ MemPoll(last.donation[1].id)
    \/ last.donation # Null /\ DbPoll(last.donation[1].id, "none")

(***************************************************************************)
(* C14.  The queue_size of a successful ingest and of every poll is the    *)
(* number of donations stored with delivered = false once the request has  *)
(* made its own changes: the append and the eviction, or the confirm.      *)
(***************************************************************************)
C14_QueueSizeIsUndeliveredCount ==
    [][((FrameIngestStep \/ FramePollStep) /\ last'.status = 200) =>
          last'.queue_size =
              Cardinality({i \in DOMAIN donationQueue' : ~donationQueue'[i].delivered})]_vars

\* The 21st ingest into the in-memory queue has evicted a delivered
\* donation and counted 19 of the 20 stored ones.
C14_Witness ==
    /\ variant = "memory"
    /\ last.op = "saweria"
    /\ last.status = 200
    /\ nextSeq = 21
    /\ Len(donationQueue) = 20
    /\ donationQueue[1].delivered
    /\ last.queue_size = 19

(***************************************************************************)
(* The leaderboard past its limit: donors that each give once, in           *)
(* ascending order of amount with some totals equal, and polls.             *)
(***************************************************************************)
MaxBoardIngests == 11

DonorNames ==
    <<"Ani", "Budi", "Citra", "Dewi", "Eko", "Fajar", "Gita",
      "Hadi", "Indah", "Joko", "Kartika", "Lina", "Made">>

\* What the k-th donor may give: k, and for every other donor also k + 1,
\* the amount the next donor gives.
BoardAmounts(k) == IF k % 2 = 1 THEN {Num(k), Num(k + 1)} ELSE {Num(k)}

BoardPayloads ==
    {[EmptyPayload EXCEPT !.donator_name = Str(DonorNames[nextSeq + 1]),
                          !.donation = a] : a \in BoardAmounts(nextSeq + 1)}

NextBoard ==
    \/ \E data \in BoardPayloads :
           nextSeq < MaxBoardIngests /\ MemIngest(data, FreshSuffix)
    \/ \E data \in BoardPayloads :
           nextSeq < MaxBoardIngests /\ DbIngest(data, FreshSuffix, "none")
    \/ MemPoll(NoConfirm)
    \/ DbPoll(NoConfirm, "none")

SpecBoard == Init /\ [][NextBoard]_vars

\* top holds entry e of the leaderboard.
Lists(top, e) == \E i \in DOMAIN top : top[i] = e

(***************************************************************************)
(* C15.  The top_spenders list of a poll holds min(10, number of entries)  *)
(* distinct leaderboard entries, in descending order of total_amount, and  *)
(* no entry it leaves out has a greater total than one it holds.  (In      *)
(* SpecBoard the leaderboard is unchanged from a poll to the next ingest,  *)
(* so the last response is compared with the leaderboard as it stands.)    *)
(***************************************************************************)
C15_TopTenDescending ==
    (last.op = "roblox-check" /\ last.status = 200) =>
        LET top == last.top_spenders
            board == topSpenders
        IN  /\ Len(top) = IF Len(board) < 10 THEN Len(board) ELSE 10
            /\ \A i \in DOMAIN top : \E j \in DOMAIN board : board[j] = top[i]
            /\ \A i, k \in DOMAIN top : top[i].username = top[k].username => i = k
            /\ \A i \in 1..(Len(top) - 1) :
                   top[i].total_amount >= top[i + 1].total_amount
            /\ \A j \in DOMAIN board : \A i \in DOMAIN top :
                   ~Lists(top, board[j]) =>
                       board[j].total_amount <= top[i].total_amount

\* A poll has listed ten of eleven entries, the last donor first, and left
\* out an entry whose total equals the least total listed.
C15_Witness ==
    /\ last.op = "roblox-check"
    /\ last.status = 200
    /\ Len(topSpenders) = 11
    /\ Len(last.top_spenders) = 10
    /\ last.top_spenders[1].username = "Kartika"
    /\ \E j \in DOMAIN topSpenders :
           /\ ~Lists(last.top_spenders, topSpenders[j])
           /\ topSpenders[j].total_amount = last.top_spenders[10].total_amount

(***************************************************************************)
(* Donors without a name: payloads that set no alias field at all, or the  *)
(* amount only, next to a named donor, with polls and the clear.           *)
(***************************************************************************)
MaxAnonIngests == 3

\* A payload that names no donor but carries an amount.
AmountOnlyPayload == [EmptyPayload EXCEPT !.amount = Str("5000")]

AnonPayloads == {EmptyPayload, AmountOnlyPayload, BudiPayload}

AnonIngestStep ==
    \/ \E data \in AnonPayloads : MemIngest(data, FreshSuffix)
    \/ \E data \in AnonPayloads : DbIngest(data, FreshSuffix, "none")

NextAnon ==
    \/ \E data \in AnonPayloads :
           nextSeq < MaxAnonIngests /\ MemIngest(data, FreshSuffix)
    \/ \E data \in AnonPayloads :
           nextSeq < MaxAnonIngests /\ DbIngest(data, FreshSuffix, "none")
    \/ \E confirmId \in {NoConfirm} \cup StoredIds : MemPoll(confirmId)
    \/ \E confirmId \in {NoConfirm} \cup StoredIds : DbPoll(confirmId, "none")
    \/ MemClear
    \/ DbClear("none")

SpecAnon == Init /\ [][NextAnon]_vars

\* The total board shows for username; 0 when it has no entry.
BoardTotal(board, username) ==
    IF HasEntry(board, username)
    THEN board[EntryIndex(board, username)].total_amount
    ELSE 0

(***************************************************************************)
(* C16.  An ingest whose payload sets none of the alias fields stores a    *)
(* donation with username and display_name "Anonymous", amount 0, message  *)
(* "" and delivered = false; after it the leaderboard has an entry         *)
(* "Anonymous" whose total is what it was before (0 when the entry is new).*)
(***************************************************************************)
C16_EmptyPayloadIsAnonymous ==
    [][(/\ last'.op = "saweria"
        /\ last'.request = EmptyPayload
        /\ last'.status = 200
        /\ AnonIngestStep)
       =>
       LET stored == donationQueue'[Len(donationQueue')]
       IN  /\ stored.seq = nextSeq
           /\ stored.id = last'.donation_id
           /\ stored.username = "Anonymous"
           /\ stored.display_name = "Anonymous"
           /\ stored.amount = 0
           /\ stored.message = ""
           /\ stored.delivered = FALSE
           /\ HasEntry(topSpenders', "Anonymous")
           /\ BoardTotal(topSpenders', "Anonymous") = BoardTotal(topSpenders, "Anonymous")
           /\ Len(topSpenders') =
                  Len(topSpenders) + (IF HasEntry(topSpenders, "Anonymous") THEN 0 ELSE 1)]_vars

\* An ingest without any alias field has been stored as Anonymous next to
\* an earlier anonymous donation of 5000: the total is still 5000.
C16_Witness ==
    /\ last.op = "saweria"
    /\ last.status = 200
    /\ last.request = EmptyPayload
    /\ Len(donationQueue) >= 2
    /\ Stored.username = "Anonymous"
    /\ Stored.amount = 0
    /\ Stored.id = last.donation_id
    /\ BoardTotal(topSpenders, "Anonymous") = 5000

AnonPollStep ==
    \/ \E confirmId \in {NoConfirm} \cup StoredIds : MemPoll(confirmId)
    \/ \E confirmId \in {NoConfirm} \cup StoredIds : DbPoll(confirmId, "none")

\* The last request was a clear, and it succeeded.
Cleared == last.op = "clear" /\ last.status = 200

(***************************************************************************)
(* C17.  A successful clear leaves both stores empty.  The poll that       *)
(* follows it answers donation = null, an empty top_spenders list and      *)
(* queue_size 0; the ingest that follows it stores the only donation and   *)
(* the only leaderboard entry, whose total is the amount of that ingest,   *)
(* whatever the donor had given before the clear.                          *)
(***************************************************************************)
C17_ClearEmptiesBothStores ==
    [][/\ ((MemClear \/ DbClear("none")) /\ last'.status = 200) =>
              donationQueue' = <<>> /\ topSpenders' = <<>>
       /\ (Cleared /\ last'.op = "roblox-check" /\ AnonPollStep) =>
              /\ last'.status = 200
              /\ last'.donation = Null
              /\ last'.top_spenders = <<>>
              /\ last'.queue_size = 0
       /\ (Cleared /\ last'.op = "saweria" /\ last'.status = 200 /\ AnonIngestStep) =>
              /\ Len(donationQueue') = 1
              /\ topSpenders' = <<[username |-> donationQueue'[1].username,
                                   display_name |-> donationQueue'[1].username,
                                   total_amount |-> donationQueue'[1].amount]>>]_vars

\* Three donations were ingested in all and a clear came before the last
\* one, Budi's: the queue holds it alone and Budi's total is its amount.
C17_Witness ==
    /\ last.op = "saweria"
    /\ last.status = 200
    /\ nextSeq = 3
    /\ Len(donationQueue) = 1
    /\ donationQueue[1].username = "Budi"
    /\ topSpenders = <<[username |-> "Budi", display_name |-> "Budi",
                        total_amount |-> 5000]>>

\* A poll that carries no confirm parameter.
PlainPollStep ==
    MemPoll(NoConfirm) \/ \E fault \in DbPollFaults : DbPoll(NoConfirm, fault)

(***************************************************************************)
(* C18.  A poll without confirm changes neither the queue, nor a delivered *)
(* flag, nor the leaderboard.  When the request before it was a poll too   *)
(* and the donation that one served is still stored and undelivered, it    *)
(* serves the same donation again.                                         *)
(***************************************************************************)
C18_PlainPollChangesNothing ==
    [][(last'.op = "roblox-check" /\ last'.request = NoConfirm /\ PlainPollStep) =>
          /\ donationQueue' = donationQueue
          /\ topSpenders' = topSpenders
          /\ (/\ last'.status = 200
              /\ last.op = "roblox-check"
              /\ last.status = 200
              /\ last.donation # Null
              /\ \E i \in DOMAIN donationQueue : donationQueue[i] = last.donation[1])
             => last'.donation = last.donation]_vars

\* A poll without confirm has served a donation that is still stored and
\* undelivered, with a later undelivered donation behind it.
C18_Witness ==
    /\ last.op = "roblox-check"
    /\ last.request = NoConfirm
    /\ last.status = 200
    /\ last.donation # Null
    /\ \E i, j \in UndeliveredIndexes(donationQueue) :
           /\ i # j
           /\ donationQueue[i] = last.donation[1]
    /\ Len(topSpenders) > 0

(***************************************************************************)
(* Delivery: a client that keeps polling and confirms every donation it is *)
(* served, next to ingests, the clock and a sweep that removes delivered   *)
(* donations only.  The queue stays below its capacity and is not cleared. *)
(***************************************************************************)
MaxLiveIngests == 3

LiveInstants == {0, 60001}

\* An ingest that stores its donation.  In memory the suffix may repeat one
\* of the same millisecond; the durable variant rejects such an ingest and
\* stores nothing, so only new suffixes are drawn for it.
LiveIngestStep ==
    \/ \E rnd \in Suffixes : MemIngest(BudiPayload, rnd)
    \/ DbIngest(BudiPayload, FreshSuffix, "none")

\* The client polls.
ClientPoll == MemPoll(NoConfirm) \/ DbPoll(NoConfirm, "none")

\* The client confirms the donation its last poll served; the response
\* serves it the next one.
ClientConfirm ==
    /\ last.op = "roblox-check"
    /\ last.donation # Null
    /\ \/ MemPoll(last.donation[1].id)
       \/ DbPoll(last.donation[1].id, "none")

\* A sweep that removes no donation the client has not confirmed.
LiveCleanupStep ==
    /\ MemCleanup \/ DbCleanup("none")
    /\ \A i \in DOMAIN donationQueue :
           donationQueue[i].delivered
               \/ \E j \in DOMAIN donationQueue' : donationQueue'[j] = donationQueue[i]

NextLive ==
    \/ nextSeq < MaxLiveIngests /\ LiveIngestStep
    \/ ClientPoll
    \/ ClientConfirm
    \/ LiveCleanupStep
    \/ \E t \in LiveInstants : Tick(t)

SpecLive ==
    Init /\ [][NextLive]_vars /\ WF_vars(ClientPoll) /\ WF_vars(ClientConfirm)

\* The donation of ordinal k is stored and not confirmed.
Waiting(k) ==
    \E i \in DOMAIN donationQueue :
        donationQueue[i].seq = k /\ ~donationQueue[i].delivered

\* A poll has just served the donation of ordinal k.
Served(k) ==
    /\ last.op = "roblox-check"
    /\ last.status = 200
    /\ last.donation # Null
    /\ last.donation[1].seq = k

====
